---- MODULE Spec2Model ----
(***************************************************************************)
(* Model of the Home component of src/app/page.tsx: the document list, the *)
(* asynchronous runAnalysis pipeline (ensureWorker, the per-document OCR   *)
(* loop, policy parsing, cross-checks, report) and the user operations     *)
(* that interleave with it (handleFiles, removeDocument, the policy text   *)
(* area, the applicant form).                                              *)
(*                                                                         *)
(* Atomicity follows the JavaScript event loop: everything a handler or an *)
(* async continuation does between two awaits of an external promise is    *)
(* one action.  runAnalysis is a closure: it reads the documents,          *)
(* policyText and applicantForm of the render in which the button was      *)
(* clicked (run.docs, run.policyText, run.applicantForm), while the        *)
(* functional setDocuments updates act on the current list.  run keeps the *)
(* locals of the last call after it has returned; run.idx is the position  *)
(* of the loop, Len(run.docs) + 1 once the loop is through.                *)
(*                                                                         *)
(* On unmount React discards the component's state and ignores later state *)
(* updates: the model resets the useState variables and leaves them alone  *)
(* from then on, while the pending call of runAnalysis, its closure and    *)
(* workerRef live on.                                                      *)
(*                                                                         *)
(* Not modelled: ocrProgress, viewMode, copyJson.                          *)
(* Strings that the code trims, concatenates or normalises are sequences   *)
(* of one-character strings; opaque texts (OCR raw text, toast titles,     *)
(* error messages, policy text) are TLA+ strings.                          *)
(***************************************************************************)
EXTENDS Integers, Sequences, FiniteSets, TLC

VARIABLES
  documents,      \* useState<UploadedDocument[]>
  nextId,         \* next fresh crypto.randomUUID()
  policyText,     \* useState<string>
  applicantForm,  \* useState({surname, givenNames, ...})
  processing,     \* useState<boolean>
  report,         \* useState<StructuredReport | null>
  toast,          \* useState<ToastMessage | null> (the title)
  workerRef,      \* useRef<Worker | null>: 0 is null, else the worker's id
  workers,        \* the tesseract workers created and not terminated
  nextWorker,     \* id of the next worker createWorker makes
  pc,             \* where the pending runAnalysis call is suspended
  run,            \* the locals and captured state of the runAnalysis call
  edits,          \* number of text-input events so far (bounded)
  mounted,        \* the component is mounted
  rcApplicant,    \* cross-check block alone: the applicant form
  rcDocs,         \* cross-check block alone: processedDocs
  rcSim,          \* cross-check block alone: what computeNameSimilarity returned
  rcBest,         \* cross-check block alone: bestDoc
  rcChecks,       \* cross-check block alone: the crossChecks built
  rcPc            \* cross-check block alone: "input", "done" ("off" under Spec)

vars == <<documents, nextId, policyText, applicantForm, processing, report,
          toast, workerRef, workers, nextWorker, pc, run, edits, mounted,
          rcApplicant, rcDocs, rcSim, rcBest, rcChecks, rcPc>>

appVars == <<documents, nextId, policyText, applicantForm, processing, report,
             toast, workerRef, workers, nextWorker, pc, run, edits, mounted>>

rcVars == <<rcApplicant, rcDocs, rcSim, rcBest, rcChecks, rcPc>>

(***************************************************************************)
(* Bounds                                                                  *)
(***************************************************************************)
MaxDocs == 2

MaxWorkers == 2

MaxEdits == 1

MaxRcDocs == 2

(***************************************************************************)
(* JavaScript values                                                       *)
(***************************************************************************)
Null == [null |-> TRUE]

NoToast == "(null)"

Undefined == "(undefined)"

NoExtraction == [undefined |-> TRUE]

(***************************************************************************)
(* Strings as sequences of characters                                     *)
(***************************************************************************)
IsSpace(c) == c = " "

IsLetter(c) == c \in {"a", "b", "j", "d", "u", "x", "A", "B", "J", "D", "U", "X"}

UpperChar(c) ==
  CASE c = "a" -> "A"
    [] c = "b" -> "B"
    [] c = "j" -> "J"
    [] c = "d" -> "D"
    [] c = "u" -> "U"
    [] c = "x" -> "X"
    [] OTHER -> c

\* String.prototype.toUpperCase
ToUpperCase(s) == [i \in 1..Len(s) |-> UpperChar(s[i])]

RECURSIVE TrimStart(_)
TrimStart(s) ==
  IF s # << >> /\ IsSpace(Head(s)) THEN TrimStart(Tail(s)) ELSE s

RECURSIVE TrimEnd(_)
TrimEnd(s) ==
  IF s # << >> /\ IsSpace(s[Len(s)]) THEN TrimEnd(SubSeq(s, 1, Len(s) - 1)) ELSE s

\* String.prototype.trim
Trim(s) == TrimEnd(TrimStart(s))

KeepNonSpace(c) == ~IsSpace(c)

\* s.replace(/\s+/g, "")
StripWhitespace(s) == SelectSeq(s, KeepNonSpace)

\* s.replace(/[^A-Z]/gi, "")
StripNonLetters(s) == SelectSeq(s, IsLetter)

\* the template literal `${a} ${b}`
JoinWithSpace(a, b) == a \o <<" ">> \o b

\* JavaScript truthiness of a string
Truthy(s) == s # << >>

(***************************************************************************)
(* The ../lib modules that page.tsx imports, from their contract           *)
(***************************************************************************)
OcrTexts == {"T_full", "T_junk"}

FieldNames == {"surname", "givenNames", "documentNumber", "nationality", "birthDate"}

\* a FieldValue, and the absence of one (absent fields are omitted)
FV(v, c) == [value |-> v, confidence |-> c]

Absent == [absent |-> TRUE]

\* parseMRZ never throws; it returns a record or the absence of one.
ParseMRZ(rawText) == IF rawText = "T_full" THEN [valid |-> TRUE] ELSE Null

\* extractFields always succeeds, with a possibly sparse extraction.
ExtractFields(rawText, mrz) ==
  IF mrz # Null
  THEN [fields |-> [surname |-> FV(<<"D">>, 95),
                    givenNames |-> FV(<<"J">>, 95),
                    documentNumber |-> FV(<<"a", " ", "1">>, 92),
                    nationality |-> FV(<<"U">>, 92),
                    birthDate |-> FV(<<"9", "0">>, 90)],
        confidence |-> 90]
  ELSE [fields |-> [f \in FieldNames |-> Absent], confidence |-> 0]

\* Whether the decoding steps throw on a raw text: by contract, never.
DecodeThrows(rawText) == FALSE

PolicyTexts == {"defaultPolicyText", "customPolicyText", "malformed"}

defaultPolicy == "defaultPolicy"

\* parsePolicy throws on malformed text.
ParsePolicy(text) ==
  CASE text = "defaultPolicyText" -> [threw |-> FALSE, policy |-> defaultPolicy]
    [] text = "customPolicyText" -> [threw |-> FALSE, policy |-> "customPolicy"]
    [] OTHER -> [threw |-> TRUE, policy |-> Undefined]

EvaluateEligibility(applicant, processedDocs, policy) ==
  [policy |-> policy, visaType |-> applicant.visaType, documents |-> Len(processedDocs)]

BuildReport(processedDocs, eligibility, applicant, crossChecks) ==
  [extractions |-> processedDocs, eligibility |-> eligibility, crossChecks |-> crossChecks]

\* Similarity scores are in thousandths: 750 is 0.75.
SimValues == {0, 400, 401, 750, 751, 1000}

\* computeNameSimilarity: its blend is an implementation choice; it is 1.0
\* on identical normalised strings and 0.0 when one side has no token.
SimilarityOutcomes(a, b) ==
  IF ToUpperCase(Trim(a)) = ToUpperCase(Trim(b)) THEN {1000}
  ELSE IF Trim(a) = << >> \/ Trim(b) = << >> THEN {0}
  ELSE SimValues

(***************************************************************************)
(* runAnalysis: the applicant profile and the cross-checks                 *)
(***************************************************************************)
InitialForm ==
  [surname |-> << >>, givenNames |-> << >>, dateOfBirth |-> << >>,
   nationality |-> << >>, passportNumber |-> << >>, visaType |-> "tourist"]

Applicant(form) ==
  [surname |-> form.surname,
   givenNames |-> form.givenNames,
   fullName |-> Trim(JoinWithSpace(form.givenNames, form.surname)),
   dateOfBirth |-> form.dateOfBirth,
   nationality |-> form.nationality,
   passportNumber |-> form.passportNumber,
   visaType |-> form.visaType]

\* fields.f?.value, with undefined read as the empty string
ValueOf(doc, f) == IF doc.fields[f] = Absent THEN << >> ELSE doc.fields[f].value

\* fields.f?.confidence ?? 60
ConfidenceOf(doc, f) == IF doc.fields[f] = Absent THEN 60 ELSE doc.fields[f].confidence

\* ReduceBest with >= for >
RECURSIVE ReduceBestLast(_, _)
ReduceBestLast(acc, rest) ==
  IF rest = << >> THEN acc
  ELSE ReduceBestLast(IF Head(rest).confidence >= acc.confidence THEN Head(rest) ELSE acc,
                      Tail(rest))

RECURSIVE ReduceBest(_, _)
ReduceBest(acc, rest) ==
  IF rest = << >> THEN acc
  ELSE ReduceBest(IF Head(rest).confidence > acc.confidence THEN Head(rest) ELSE acc,
                  Tail(rest))

\* processedDocs.reduce((acc, current) => current.confidence > acc.confidence ? current : acc)
BestDoc(processedDocs) == ReduceBest(Head(processedDocs), Tail(processedDocs))

DocName(bestDoc) ==
  Trim(JoinWithSpace(ValueOf(bestDoc, "givenNames"), ValueOf(bestDoc, "surname")))

\* Math.round(similarity * 100), the similarity in thousandths
RoundPercent(similarity) == (similarity + 5) \div 10

\* FullNameCheck with the thresholds inclusive
FullNameCheckInclusive(applicant, bestDoc, similarity) ==
  IF Truthy(DocName(bestDoc))
  THEN <<[field |-> "fullName",
          status |-> IF similarity >= 750 THEN "pass"
                     ELSE IF similarity >= 400 THEN "warning" ELSE "fail",
          confidence |-> RoundPercent(similarity)]>>
  ELSE << >>

FullNameCheck(applicant, bestDoc, similarity) ==
  IF Truthy(DocName(bestDoc))
  THEN <<[field |-> "fullName",
          status |-> IF similarity > 750 THEN "pass"
                     ELSE IF similarity > 400 THEN "warning" ELSE "fail",
          confidence |-> RoundPercent(similarity)]>>
  ELSE << >>

DateOfBirthCheck(applicant, bestDoc) ==
  LET docDob == ValueOf(bestDoc, "birthDate") IN
  IF Truthy(docDob) /\ Truthy(applicant.dateOfBirth)
  THEN <<[field |-> "dateOfBirth",
          status |-> IF docDob = applicant.dateOfBirth THEN "pass" ELSE "warning",
          confidence |-> ConfidenceOf(bestDoc, "birthDate")]>>
  ELSE << >>

\* PassportNumberCheck without the upper-casing
PassportNumberCheckCaseSensitive(applicant, bestDoc) ==
  LET docPassport == ValueOf(bestDoc, "documentNumber") IN
  IF Truthy(docPassport) /\ Truthy(applicant.passportNumber)
  THEN LET normalizedDoc == StripWhitespace(docPassport)
           normalizedApplicant == StripWhitespace(applicant.passportNumber)
       IN <<[field |-> "passportNumber",
             status |-> IF normalizedDoc = normalizedApplicant THEN "pass" ELSE "warning",
             confidence |-> ConfidenceOf(bestDoc, "documentNumber")]>>
  ELSE << >>

PassportNumberCheck(applicant, bestDoc) ==
  LET docPassport == ValueOf(bestDoc, "documentNumber") IN
  IF Truthy(docPassport) /\ Truthy(applicant.passportNumber)
  THEN LET normalizedDoc == ToUpperCase(StripWhitespace(docPassport))
           normalizedApplicant == ToUpperCase(StripWhitespace(applicant.passportNumber))
       IN <<[field |-> "passportNumber",
             status |-> IF normalizedDoc = normalizedApplicant THEN "pass" ELSE "warning",
             confidence |-> ConfidenceOf(bestDoc, "documentNumber")]>>
  ELSE << >>

NationalityCheck(applicant, bestDoc) ==
  IF Truthy(ValueOf(bestDoc, "nationality")) /\ Truthy(applicant.nationality)
  THEN LET docNationality == ToUpperCase(StripNonLetters(ValueOf(bestDoc, "nationality")))
           applicantNationality == ToUpperCase(StripNonLetters(applicant.nationality))
       IN <<[field |-> "nationality",
             status |-> IF docNationality = applicantNationality THEN "pass" ELSE "warning",
             confidence |-> ConfidenceOf(bestDoc, "nationality")]>>
  ELSE << >>

\* CrossChecks with the passport block ahead of the date-of-birth block
CrossChecksReordered(applicant, processedDocs, similarity) ==
  LET bestDoc == BestDoc(processedDocs) IN
    FullNameCheck(applicant, bestDoc, similarity)
      \o PassportNumberCheck(applicant, bestDoc)
      \o DateOfBirthCheck(applicant, bestDoc)
      \o NationalityCheck(applicant, bestDoc)

\* the crossChecks array after the four conditional pushes
CrossChecks(applicant, processedDocs, similarity) ==
  LET bestDoc == BestDoc(processedDocs) IN
    FullNameCheck(applicant, bestDoc, similarity)
      \o DateOfBirthCheck(applicant, bestDoc)
      \o PassportNumberCheck(applicant, bestDoc)
      \o NationalityCheck(applicant, bestDoc)

(***************************************************************************)
(* The document list and its functional updates                            *)
(***************************************************************************)
NewDocument(id) ==
  [id |-> id, status |-> "pending", text |-> Undefined,
   extraction |-> NoExtraction, error |-> Undefined]

Ids(docs) == {docs[i].id : i \in 1..Len(docs)}

DocOf(docs, id) == docs[CHOOSE i \in 1..Len(docs) : docs[i].id = id]

\* { ...current, status: "processing", error: undefined }
MarkProcessing(docs, id) ==
  [i \in 1..Len(docs) |->
     IF docs[i].id = id
     THEN [docs[i] EXCEPT !.status = "processing", !.error = Undefined]
     ELSE docs[i]]

\* MarkDone with the status of the catch block
MarkDoneAsError(docs, id, rawText, extraction) ==
  [i \in 1..Len(docs) |->
     IF docs[i].id = id
     THEN [docs[i] EXCEPT !.status = "error", !.text = rawText, !.extraction = extraction]
     ELSE docs[i]]

\* { ...current, status: "done", text: rawText, extraction }
MarkDone(docs, id, rawText, extraction) ==
  [i \in 1..Len(docs) |->
     IF docs[i].id = id
     THEN [docs[i] EXCEPT !.status = "done", !.text = rawText, !.extraction = extraction]
     ELSE docs[i]]

\* MarkError without the test of the id
MarkErrorAll(docs, id, message) ==
  [i \in 1..Len(docs) |-> [docs[i] EXCEPT !.status = "error", !.error = message]]

\* { ...current, status: "error", error: ... }
MarkError(docs, id, message) ==
  [i \in 1..Len(docs) |->
     IF docs[i].id = id
     THEN [docs[i] EXCEPT !.status = "error", !.error = message]
     ELSE docs[i]]

\* What worker.recognize can reject with: an Error carrying the engine's
\* message, or any other value (tesseract.js rejects with the message string).
OcrErrors ==
  {[isError |-> TRUE, message |-> "engine error"],
   [isError |-> FALSE, message |-> Undefined]}

\* error instanceof Error ? error.message : "OCR failed unexpectedly."
ErrorMessage(error) ==
  IF error.isError THEN error.message ELSE "OCR failed unexpectedly."

\* documents.filter(doc => doc.status === "done" && doc.extraction).map(doc => doc.extraction)
ExistingExtractions(docs) ==
  LET done == SelectSeq(docs, LAMBDA d : d.status = "done" /\ d.extraction # NoExtraction)
  IN [i \in 1..Len(done) |-> done[i].extraction]

\* A state setter called with next: ignored once the component is unmounted.
SetState(prev, next) == IF mounted THEN next ELSE prev

\* The toast after a batch of setToast calls: the last one wins.
CommitToast(prev, calls) == IF calls = << >> THEN prev ELSE calls[Len(calls)]

\* The setToast calls of the tail of runAnalysis, in order.
ReportToasts(policyThrew) ==
  IF policyThrew THEN <<"Policy Error", "Analysis Complete">> ELSE <<"Analysis Complete">>

(***************************************************************************)
(* Initial state                                                           *)
(***************************************************************************)
NoRun ==
  [docs |-> << >>, policyText |-> "defaultPolicyText", applicantForm |-> InitialForm,
   worker |-> 0, existingExtractions |-> << >>, collectedExtractions |-> << >>,
   idx |-> 0]

AppInit ==
  /\ documents = << >>
  /\ nextId = 1
  /\ policyText = "defaultPolicyText"
  /\ applicantForm = InitialForm
  /\ processing = FALSE
  /\ report = Null
  /\ toast = NoToast
  /\ workerRef = 0
  /\ workers = {}
  /\ nextWorker = 1
  /\ pc = "idle"
  /\ run = NoRun
  /\ edits = 0
  /\ mounted = TRUE

(***************************************************************************)
(* User operations                                                         *)
(***************************************************************************)
\* handleFiles with n files
HandleFiles(n) ==
  /\ mounted
  /\ nextId + n - 1 <= MaxDocs
  /\ documents' = documents \o [i \in 1..n |-> NewDocument(nextId + i - 1)]
  /\ nextId' = nextId + n
  /\ toast' = "Files Added"
  /\ UNCHANGED <<policyText, applicantForm, processing, report, workerRef, workers,
                 nextWorker, pc, run, edits, mounted, rcVars>>

removeDocument(id) ==
  /\ mounted
  /\ id \in Ids(documents)
  /\ documents' = SelectSeq(documents, LAMBDA d : d.id # id)
  /\ UNCHANGED <<nextId, policyText, applicantForm, processing, report, toast, workerRef,
                 workers, nextWorker, pc, run, edits, mounted, rcVars>>

\* the policy textarea's onChange
SetPolicyText(text) ==
  /\ mounted
  /\ edits < MaxEdits
  /\ text # policyText
  /\ policyText' = text
  /\ edits' = edits + 1
  /\ UNCHANGED <<documents, nextId, applicantForm, processing, report, toast, workerRef,
                 workers, nextWorker, pc, run, mounted, rcVars>>

FormInputs ==
  [surname |-> {<<"D">>}, givenNames |-> {<<"J">>}, dateOfBirth |-> {<<"9", "0">>},
   nationality |-> {<<"u">>}, passportNumber |-> {<<"A", "1">>}, visaType |-> {"student"}]

\* an applicant form field's onChange
SetApplicantForm(field, value) ==
  /\ mounted
  /\ edits < MaxEdits
  /\ value # applicantForm[field]
  /\ applicantForm' = [applicantForm EXCEPT ![field] = value]
  /\ edits' = edits + 1
  /\ UNCHANGED <<documents, nextId, policyText, processing, report, toast, workerRef,
                 workers, nextWorker, pc, run, mounted, rcVars>>

(***************************************************************************)
(* runAnalysis                                                             *)
(***************************************************************************)
\* One loop iteration up to its await: mark the document, call recognize.
StartOcr(docsNow, r, i) ==
  /\ documents' = MarkProcessing(docsNow, r.docs[i].id)
  /\ run' = [r EXCEPT !.idx = i]
  /\ pc' = "recognize"

\* Finish without the try/catch around parsePolicy: its exception leaves
\* runAnalysis through the finally block
FinishPolicyThrows(docsNow, r) ==
  LET processedDocs == r.collectedExtractions IN
  /\ documents' = docsNow
  /\ run' = r
  /\ pc' = "idle"
  /\ processing' = FALSE
  /\ IF Len(processedDocs) = 0
     THEN /\ toast' = SetState(toast, CommitToast(toast, <<"Analysis Incomplete">>))
          /\ UNCHANGED report
     ELSE LET parsed == ParsePolicy(r.policyText)
              applicant == Applicant(r.applicantForm)
              eligibility == EvaluateEligibility(applicant, processedDocs, parsed.policy)
          IN IF parsed.threw
             THEN UNCHANGED <<report, toast>>
             ELSE \E similarity \in SimilarityOutcomes(DocName(BestDoc(processedDocs)),
                                                        applicant.fullName) :
                    /\ report' = SetState(report,
                                          BuildReport(processedDocs, eligibility, applicant,
                                                      CrossChecks(applicant, processedDocs,
                                                                  similarity)))
                    /\ toast' = SetState(toast, CommitToast(toast, ReportToasts(FALSE)))

\* After the loop: the run-level failure exit, or policy, cross-checks and
\* report; then the finally block.
Finish(docsNow, r) ==
  LET processedDocs == r.collectedExtractions IN
  /\ documents' = docsNow
  /\ run' = r
  /\ pc' = "idle"
  /\ processing' = FALSE
  /\ IF Len(processedDocs) = 0
     THEN /\ toast' = SetState(toast, CommitToast(toast, <<"Analysis Incomplete">>))
          /\ UNCHANGED report
     ELSE LET parsed == ParsePolicy(r.policyText)
              policy == IF parsed.threw THEN defaultPolicy ELSE parsed.policy
              applicant == Applicant(r.applicantForm)
              eligibility == EvaluateEligibility(applicant, processedDocs, policy)
          IN \E similarity \in SimilarityOutcomes(DocName(BestDoc(processedDocs)),
                                                  applicant.fullName) :
               /\ report' = SetState(report,
                                     BuildReport(processedDocs, eligibility, applicant,
                                                 CrossChecks(applicant, processedDocs,
                                                             similarity)))
               /\ toast' = SetState(toast, CommitToast(toast, ReportToasts(parsed.threw)))

\* The for loop from its i-th document on.
Continue(docsNow, r, i) ==
  IF i <= Len(r.docs)
  THEN StartOcr(docsNow, r, i) /\ UNCHANGED <<processing, report, toast>>
  ELSE Finish(docsNow, [r EXCEPT !.idx = i])

\* The inner try block completed normally: on to the next document.
AfterTry(docsNow, r) == Continue(docsNow, r, r.idx + 1)

\* An exception leaves runAnalysis through the finally block.
Throw(r) ==
  /\ processing' = FALSE
  /\ pc' = "idle"
  /\ run' = r
  /\ UNCHANGED <<documents, report, toast>>

\* AfterCatch with the catch around the loop instead of inside it
AfterCatchAborts(docsNow, r) ==
  /\ documents' = docsNow
  /\ processing' = FALSE
  /\ pc' = "idle"
  /\ run' = r
  /\ UNCHANGED <<report, toast>>

\* The inner catch block completed: on to the next document.
AfterCatch(docsNow, r) == Continue(docsNow, r, r.idx + 1)

\* The locals set up once the worker is at hand (lines 112-115).
WithWorker(r, worker) ==
  [r EXCEPT !.worker = worker,
            !.existingExtractions = ExistingExtractions(r.docs),
            !.collectedExtractions = ExistingExtractions(r.docs)]

\* The click on "Analyze & Verify" (the button is disabled while processing).
runAnalysis ==
  /\ mounted
  /\ pc = "idle"
  /\ ~processing
  /\ IF Len(documents) = 0
     THEN /\ toast' = "No Documents"
          /\ UNCHANGED <<documents, processing, report, pc, run>>
     ELSE LET r == [NoRun EXCEPT !.docs = documents, !.policyText = policyText,
                                 !.applicantForm = applicantForm] IN
          /\ processing' = TRUE
          /\ report' = Null
          /\ UNCHANGED toast
          /\ IF workerRef # 0
             THEN StartOcr(documents, WithWorker(r, workerRef), 1)
             ELSE /\ pc' = "import"
                  /\ run' = r
                  /\ UNCHANGED documents
  /\ UNCHANGED <<nextId, policyText, applicantForm, workerRef, workers, nextWorker,
                 edits, mounted, rcVars>>

\* ensureWorker: await import("tesseract.js") resolves
ImportResolve ==
  /\ pc = "import"
  /\ pc' = "createWorker"
  /\ UNCHANGED <<documents, nextId, policyText, applicantForm, processing, report, toast,
                 workerRef, workers, nextWorker, run, edits, mounted, rcVars>>

\* ensureWorker: await createWorker(...) resolves with a new worker
CreateWorkerResolve ==
  /\ pc = "createWorker"
  /\ nextWorker <= MaxWorkers
  /\ workers' = workers \cup {nextWorker}
  /\ nextWorker' = nextWorker + 1
  /\ run' = [run EXCEPT !.worker = nextWorker]
  /\ pc' = "load"
  /\ UNCHANGED <<documents, nextId, policyText, applicantForm, processing, report, toast,
                 workerRef, edits, mounted, rcVars>>

\* ensureWorker: await worker.load() resolves
LoadResolve ==
  /\ pc = "load"
  /\ pc' = "loadLanguage"
  /\ UNCHANGED <<documents, nextId, policyText, applicantForm, processing, report, toast,
                 workerRef, workers, nextWorker, run, edits, mounted, rcVars>>

\* ensureWorker: await worker.loadLanguage("eng") resolves
LoadLanguageResolve ==
  /\ pc = "loadLanguage"
  /\ pc' = "initialize"
  /\ UNCHANGED <<documents, nextId, policyText, applicantForm, processing, report, toast,
                 workerRef, workers, nextWorker, run, edits, mounted, rcVars>>

\* InitializeResolve without the assignment to workerRef.current
InitializeResolveNoStore ==
  /\ pc = "initialize"
  /\ UNCHANGED workerRef
  /\ Continue(documents, WithWorker(run, run.worker), 1)
  /\ UNCHANGED <<nextId, policyText, applicantForm, workers, nextWorker, edits, mounted, rcVars>>

\* ensureWorker: await worker.initialize("eng") resolves; the worker is
\* stored and returned, and runAnalysis goes on to its first await.
InitializeResolve ==
  /\ pc = "initialize"
  /\ workerRef' = run.worker
  /\ Continue(documents, WithWorker(run, run.worker), 1)
  /\ UNCHANGED <<nextId, policyText, applicantForm, workers, nextWorker, edits, mounted, rcVars>>

EnsureWorkerStages == {"import", "createWorker", "load", "loadLanguage", "initialize"}

\* Any await of ensureWorker rejects: the rejection leaves runAnalysis.
EnsureWorkerReject ==
  /\ pc \in EnsureWorkerStages
  /\ Throw(run)
  /\ UNCHANGED <<nextId, policyText, applicantForm, workerRef, workers, nextWorker,
                 edits, mounted, rcVars>>

\* await worker.recognize(doc.file) resolves with rawText
RecognizeResolve(rawText) ==
  LET doc == run.docs[run.idx] IN
  /\ pc = "recognize"
  /\ IF DecodeThrows(rawText)
     THEN AfterCatch(MarkError(documents, doc.id, "decode error"), run)
     ELSE LET mrz == ParseMRZ(rawText)
              extraction == ExtractFields(rawText, mrz)
          IN AfterTry(MarkDone(documents, doc.id, rawText, extraction),
                      [run EXCEPT !.collectedExtractions = Append(@, extraction)])
  /\ UNCHANGED <<nextId, policyText, applicantForm, workerRef, workers, nextWorker,
                 edits, mounted, rcVars>>

\* await worker.recognize(doc.file) rejects
RecognizeReject(error) ==
  LET doc == run.docs[run.idx] IN
  /\ pc = "recognize"
  /\ AfterCatch(MarkError(documents, doc.id, ErrorMessage(error)), run)
  /\ UNCHANGED <<nextId, policyText, applicantForm, workerRef, workers, nextWorker,
                 edits, mounted, rcVars>>

\* The cleanup of the mount effect: the worker in workerRef, if any, is
\* terminated and the ref cleared; the component's state is gone.
Unmount ==
  /\ mounted
  /\ mounted' = FALSE
  /\ IF workerRef # 0
     THEN /\ workers' = workers \ {workerRef}
          /\ workerRef' = 0
     ELSE UNCHANGED <<workers, workerRef>>
  /\ documents' = << >>
  /\ policyText' = "defaultPolicyText"
  /\ applicantForm' = InitialForm
  /\ processing' = FALSE
  /\ report' = Null
  /\ toast' = NoToast
  /\ UNCHANGED <<nextId, nextWorker, pc, run, edits, rcVars>>

(***************************************************************************)
(* The component                                                           *)
(***************************************************************************)
Init ==
  /\ AppInit
  /\ rcApplicant = InitialForm
  /\ rcDocs = << >>
  /\ rcSim = 0
  /\ rcBest = NoExtraction
  /\ rcChecks = << >>
  /\ rcPc = "off"

Next ==
  \/ \E n \in 1..MaxDocs : HandleFiles(n)
  \/ \E id \in 1..MaxDocs : removeDocument(id)
  \/ \E text \in PolicyTexts : SetPolicyText(text)
  \/ \E field \in DOMAIN FormInputs : \E value \in FormInputs[field] \cup {InitialForm[field]} :
       SetApplicantForm(field, value)
  \/ runAnalysis
  \/ ImportResolve
  \/ CreateWorkerResolve
  \/ LoadResolve
  \/ LoadLanguageResolve
  \/ InitializeResolve
  \/ EnsureWorkerReject
  \/ \E rawText \in OcrTexts : RecognizeResolve(rawText)
  \/ \E error \in OcrErrors : RecognizeReject(error)
  \/ Unmount

Spec == Init /\ [][Next]_vars

(***************************************************************************)
(* The cross-check block of runAnalysis (lines 199-271) on its own, over   *)
(* a wider range of applicant forms and processed documents                *)
(***************************************************************************)
RcFieldSets ==
  {FieldNames, {}, {"surname"}, {"givenNames"}, FieldNames \ {"surname", "givenNames"}}
    \cup {FieldNames \ {f} : f \in {"documentNumber", "nationality", "birthDate"}}

RcFieldValue(f) ==
  CASE f = "surname" -> FV(<<"D">>, 95)
    [] f = "givenNames" -> FV(<<"J">>, 95)
    [] f = "documentNumber" -> FV(<<"a", " ", "1">>, 92)
    [] f = "nationality" -> FV(<<"U">>, 92)
    [] f = "birthDate" -> FV(<<"9", "0">>, 90)

\* The birth date of an extraction: in the form the date input yields, or as
\* printed on the document (a date pattern matched in the free text).
RcBirthDates == {<<"9", "0">>, <<"9", "/", "0">>}

RcExtractions ==
  {[fields |-> [f \in FieldNames |->
                  IF f \notin present THEN Absent
                  ELSE IF f = "birthDate" THEN FV(b, 90) ELSE RcFieldValue(f)],
    confidence |-> c] : present \in RcFieldSets, c \in {50, 90}, b \in RcBirthDates}

RcNames ==
  {[surname |-> << >>, givenNames |-> << >>],
   [surname |-> <<"D">>, givenNames |-> << >>],
   [surname |-> <<"D">>, givenNames |-> <<"J">>]}

RcForms ==
  {[surname |-> n.surname,
    givenNames |-> n.givenNames,
    dateOfBirth |-> d,
    nationality |-> c,
    passportNumber |-> p,
    visaType |-> "tourist"] :
      n \in RcNames,
      d \in {<< >>, <<"9", "0">>, <<"9", "1">>},
      c \in {<< >>, <<"u">>, <<"x">>},
      p \in {<< >>, <<"A", "1">>, <<"b">>}}

RcDocLists ==
  UNION {[1..n -> RcExtractions] : n \in 1..MaxRcDocs}

RcInit ==
  /\ AppInit
  /\ rcApplicant \in RcForms
  /\ rcDocs \in RcDocLists
  /\ rcSim = 0
  /\ rcBest = NoExtraction
  /\ rcChecks = << >>
  /\ rcPc = "input"

\* lines 183-191 and 199-271 applied to the inputs
Reconcile ==
  /\ rcPc = "input"
  /\ LET applicant == Applicant(rcApplicant) IN
     \E similarity \in SimilarityOutcomes(DocName(BestDoc(rcDocs)), applicant.fullName) :
       /\ rcSim' = similarity
       /\ rcBest' = BestDoc(rcDocs)
       /\ rcChecks' = CrossChecks(applicant, rcDocs, similarity)
  /\ rcPc' = "done"
  /\ UNCHANGED <<appVars, rcApplicant, rcDocs>>

RcNext == Reconcile

RcSpec == RcInit /\ [][RcNext]_vars

(***************************************************************************)
(* Properties                                                              *)
(***************************************************************************)
Present(id) == id \in Ids(documents)

StatusOf(docs, id) == DocOf(docs, id).status

\* The step in which the OCR loop of a run ends and runAnalysis returns.
LoopEnds == pc = "recognize" /\ pc' = "idle"

AllowedStatusChanges ==
  {<<"pending", "processing">>, <<"processing", "done">>, <<"processing", "error">>}

\* C1: the only status changes of a document are pending->processing,
\* processing->done and processing->error; done and error are terminal, also
\* across later runs.
C1_StatusChangesAllowed ==
  [][\A id \in Ids(documents) \cap Ids(documents') :
       \/ StatusOf(documents', id) = StatusOf(documents, id)
       \/ <<StatusOf(documents, id), StatusOf(documents', id)>> \in AllowedStatusChanges]_vars

\* C2: a run whose OCR calls all failed (nothing was added to the carried-over
\* extractions) ends with no report and the "Analysis Incomplete" toast.
C2_RunLevelFailure ==
  [][(mounted' /\ LoopEnds /\ Len(run'.collectedExtractions) = Len(run'.existingExtractions))
       => (report' = Null /\ toast' = "Analysis Incomplete")]_vars

\* C3: when parsePolicy failed in a run and the default policy was used, the
\* toast at the end of the run carries the "Policy Error" signal.
C3_PolicyErrorSignalled ==
  [][(LoopEnds /\ report' # Null /\ ParsePolicy(run'.policyText).threw)
       => toast' = "Policy Error"]_vars

\* Documents of the run's list before position k that are still listed are
\* done or in error.
SettledBefore(k) ==
  \A j \in 1..Len(run.docs) :
    (j < k /\ Present(run.docs[j].id))
      => StatusOf(documents, run.docs[j].id) \in {"done", "error"}

\* C4, as a state: behind a failed document the run has gone on.
C4_Inv ==
  \A i \in 1..Len(run.docs) :
    (/\ i < run.idx
     /\ Present(run.docs[i].id)
     /\ StatusOf(documents, run.docs[i].id) = "error")
      => /\ DocOf(documents, run.docs[i].id).error \notin {Undefined, ""}
         /\ SettledBefore(run.idx)
         /\ pc = "idle" => run.idx = Len(run.docs) + 1
         /\ pc = "recognize" => run.idx <= Len(run.docs)

\* C4, as a step: what the rejection of recognize does.
C4_Step ==
  \A error \in OcrErrors :
    RecognizeReject(error) =>
      LET id == run.docs[run.idx].id IN
      /\ Present(id) =>
           /\ StatusOf(documents', id) = "error"
           /\ DocOf(documents', id).error \notin {Undefined, ""}
      /\ run.idx < Len(run.docs) =>
           /\ pc' = "recognize"
           /\ run'.idx = run.idx + 1
           /\ Present(run.docs[run.idx + 1].id) =>
                StatusOf(documents', run.docs[run.idx + 1].id) = "processing"
      /\ run.idx = Len(run.docs) => (pc' = "idle" /\ run'.idx = Len(run.docs) + 1)

C5_OneExtractionPerDocument ==
  [][(LoopEnds /\ report' # Null)
       => Len(report'.extractions) <= Cardinality(Ids(run'.docs))]_vars

CheckFields(checks) == [k \in 1..Len(checks) |-> checks[k].field]

Emitted(field) == \E k \in 1..Len(rcChecks) : rcChecks[k].field = field

ApplicantSide(field) ==
  CASE field = "fullName" -> Applicant(rcApplicant).fullName
    [] field = "dateOfBirth" -> rcApplicant.dateOfBirth
    [] field = "passportNumber" -> rcApplicant.passportNumber
    [] field = "nationality" -> rcApplicant.nationality

DocumentSide(field) ==
  CASE field = "fullName" -> DocName(BestDoc(rcDocs))
    [] field = "dateOfBirth" -> ValueOf(BestDoc(rcDocs), "birthDate")
    [] field = "passportNumber" -> ValueOf(BestDoc(rcDocs), "documentNumber")
    [] field = "nationality" -> ValueOf(BestDoc(rcDocs), "nationality")

CheckOrder == <<"fullName", "dateOfBirth", "passportNumber", "nationality">>

Comparable(field) == Truthy(ApplicantSide(field)) /\ Truthy(DocumentSide(field))

\* C6: a check is emitted for a field only when the applicant's value and
\* the best document's value are both non-empty.
C6_ChecksNeedBothSides ==
  rcPc = "done" =>
    \A k \in 1..4 : Emitted(CheckOrder[k]) => Comparable(CheckOrder[k])

\* C7: when runAnalysis has returned or rejected, every document of the
\* run's list that is still listed is done or in error.
C7_RunSettlesEveryDocument ==
  pc = "idle" => SettledBefore(Len(run.docs) + 1)

\* C8: a document goes from processing to error only in a step in which
\* worker.recognize rejected; whenever recognize resolves with a raw text the
\* document in flight, if still listed, becomes done with that text and its
\* extraction attached.
C8_OnlyOcrFailureGivesError ==
  [][/\ \A id \in Ids(documents) \cap Ids(documents') :
          (StatusOf(documents, id) = "processing" /\ StatusOf(documents', id) = "error")
            => \E error \in OcrErrors : RecognizeReject(error)
     /\ \A rawText \in OcrTexts :
          (RecognizeResolve(rawText) /\ Present(run.docs[run.idx].id))
            => LET after == DocOf(documents', run.docs[run.idx].id) IN
               /\ after.status = "done"
               /\ after.text = rawText
               /\ after.extraction = ExtractFields(rawText, ParseMRZ(rawText))]_vars

\* C8 witness: OCR returned a raw text with nothing to extract and the
\* document is done with its sparse extraction.
C8_Witness ==
  \E i \in 1..Len(documents) :
    /\ documents[i].status = "done"
    /\ documents[i].text = "T_junk"
    /\ documents[i].extraction = ExtractFields("T_junk", ParseMRZ("T_junk"))
    /\ pc = "idle"

\* C9: at most one document is processing and at most one OCR worker has
\* been created and not terminated.
C9_OneAtATime ==
  /\ Cardinality({i \in 1..Len(documents) : documents[i].status = "processing"}) <= 1
  /\ Cardinality(workers) <= 1

Rank(field) == CHOOSE k \in 1..4 : CheckOrder[k] = field

\* C10: the crossChecks list is an order-preserving subsequence of fullName,
\* dateOfBirth, passportNumber, nationality with no field twice, and it is
\* exactly that sequence when all four fields are comparable.
C10_CheckOrder ==
  rcPc = "done" =>
    /\ \A k \in 1..Len(rcChecks) : rcChecks[k].field \in {CheckOrder[n] : n \in 1..4}
    /\ \A k, l \in 1..Len(rcChecks) :
         k < l => Rank(rcChecks[k].field) < Rank(rcChecks[l].field)
    /\ (\A n \in 1..4 : Comparable(CheckOrder[n])) => CheckFields(rcChecks) = CheckOrder

\* C10 witness: all four fields are comparable and all four checks are
\* emitted in order.
C10_Witness ==
  /\ rcPc = "done"
  /\ \A n \in 1..4 : Comparable(CheckOrder[n])
  /\ CheckFields(rcChecks) = CheckOrder

\* The check emitted for a field.
CheckFor(field) == rcChecks[CHOOSE k \in 1..Len(rcChecks) : rcChecks[k].field = field]

IsDateSeparator(c) == c \in {"/", "-", " "}

\* The canonical representation of a date: its digits, year first, without
\* separators.
CanonicalDate(s) == SelectSeq(s, LAMBDA c : ~IsDateSeparator(c))

\* C11: the dateOfBirth check is pass exactly when the document's birth date
\* and the applicant's date of birth are equal once both are brought to the
\* canonical date representation, and warning otherwise; it is never fail.
C11_DobComparedAsDates ==
  (rcPc = "done" /\ Emitted("dateOfBirth")) =>
    CheckFor("dateOfBirth").status =
      IF CanonicalDate(DocumentSide("dateOfBirth")) = CanonicalDate(ApplicantSide("dateOfBirth"))
      THEN "pass" ELSE "warning"

\* C12: the status of the fullName check depends on the similarity score s
\* alone: pass if s > 0.75, warning if 0.4 < s <= 0.75, fail if s <= 0.4; its
\* confidence is 100*s rounded to the nearest integer (halves upwards) and
\* lies between 0 and 100.
C12_FullNameByScore ==
  (rcPc = "done" /\ Emitted("fullName")) =>
    LET check == CheckFor("fullName") IN
    /\ rcSim > 750 => check.status = "pass"
    /\ (400 < rcSim /\ rcSim <= 750) => check.status = "warning"
    /\ rcSim <= 400 => check.status = "fail"
    /\ 10 * check.confidence - 5 <= rcSim
    /\ rcSim < 10 * check.confidence + 5
    /\ check.confidence \in 0..100

\* C12 witness: a score of exactly 0.75 gave a fullName check with status
\* warning and confidence 75.
C12_Witness ==
  /\ rcPc = "done"
  /\ Emitted("fullName")
  /\ rcSim = 750
  /\ CheckFor("fullName").status = "warning"
  /\ CheckFor("fullName").confidence = 75

\* C13: when parsePolicy fails on the run's policy text the run is not
\* aborted: eligibility is evaluated with defaultPolicy and the report is
\* built and set from the run's extractions, applicant and cross-checks just
\* as for a policy text that parses to that policy, and the run returns.
C13_PolicyFailureRecovered ==
  [][(/\ mounted'
      /\ LoopEnds
      /\ Len(run'.collectedExtractions) > 0
      /\ ParsePolicy(run'.policyText).threw)
       => LET processedDocs == run'.collectedExtractions
              applicant == Applicant(run'.applicantForm)
          IN /\ report' # Null
             /\ report'.extractions = processedDocs
             /\ report'.eligibility =
                  EvaluateEligibility(applicant, processedDocs,
                                      ParsePolicy("defaultPolicyText").policy)
             /\ report'.eligibility.policy = defaultPolicy
             /\ \E similarity \in SimilarityOutcomes(DocName(BestDoc(processedDocs)),
                                                      applicant.fullName) :
                  report'.crossChecks = CrossChecks(applicant, processedDocs, similarity)
             /\ ~processing']_vars

\* C13 witness: a run over a malformed policy text has returned with a report
\* whose eligibility was evaluated with defaultPolicy.
C13_Witness ==
  /\ mounted
  /\ pc = "idle"
  /\ ParsePolicy(run.policyText).threw
  /\ report # Null
  /\ report.eligibility.policy = defaultPolicy
  /\ report.extractions = run.collectedExtractions

\* The status the passport block gives for an applicant's passport number and
\* a document number ("none" when it emits no check).
PassportStatus(applicantValue, documentValue) ==
  LET checks ==
        PassportNumberCheck(
          [passportNumber |-> applicantValue],
          [fields |-> [f \in FieldNames |->
                         IF f = "documentNumber" THEN FV(documentValue, 92) ELSE Absent],
           confidence |-> 90])
  IN IF checks = << >> THEN "none" ELSE checks[1].status

LowerChar(c) ==
  CASE c = "A" -> "a"
    [] c = "B" -> "b"
    [] c = "J" -> "j"
    [] c = "D" -> "d"
    [] c = "U" -> "u"
    [] c = "X" -> "x"
    [] OTHER -> c

\* s with other letter case and more whitespace
Respellings(s) ==
  {ToUpperCase(s), [i \in 1..Len(s) |-> LowerChar(s[i])],
   <<" ">> \o s, s \o <<" ">>, <<s[1], " ">> \o Tail(s)}

\* C14: the passportNumber check is pass when the two values are equal after
\* removing all whitespace and upper-casing both, and warning otherwise, never
\* fail; "a 1" on the document against "A1" from the applicant is pass; the
\* status is the same with the two values exchanged, and with either value
\* respelt in other letter case or with more whitespace.
C14_PassportNormalised ==
  (rcPc = "done" /\ Emitted("passportNumber")) =>
    LET a == ApplicantSide("passportNumber")
        d == DocumentSide("passportNumber")
        status == CheckFor("passportNumber").status
    IN /\ status \in {"pass", "warning"}
       /\ status = "pass" <=> ToUpperCase(StripWhitespace(a)) = ToUpperCase(StripWhitespace(d))
       /\ (a = <<"A", "1">> /\ d = <<"a", " ", "1">>) => status = "pass"
       /\ status = PassportStatus(a, d)
       /\ PassportStatus(d, a) = status
       /\ \A a2 \in Respellings(a) : PassportStatus(a2, d) = status
       /\ \A d2 \in Respellings(d) : PassportStatus(a, d2) = status

\* C14 witness: the applicant's "A1" against the document's "a 1" gave pass.
C14_Witness ==
  /\ rcPc = "done"
  /\ Emitted("passportNumber")
  /\ ApplicantSide("passportNumber") = <<"A", "1">>
  /\ DocumentSide("passportNumber") = <<"a", " ", "1">>
  /\ CheckFor("passportNumber").status = "pass"

\* C15: bestDoc is one of the processed extractions, no extraction has a
\* higher confidence, and every extraction before it in the list has a lower
\* one; the cross-checks are those of that extraction.
C15_BestDocFirstMaximum ==
  rcPc = "done" =>
    /\ \E k \in 1..Len(rcDocs) :
         /\ rcBest = rcDocs[k]
         /\ \A j \in 1..Len(rcDocs) : rcDocs[j].confidence <= rcDocs[k].confidence
         /\ \A j \in 1..(k - 1) : rcDocs[j].confidence < rcDocs[k].confidence
    /\ rcChecks = CrossChecks(Applicant(rcApplicant), <<rcBest>>, rcSim)

\* C15 witness: two different extractions tie on confidence and the first is
\* the best document.
C15_Witness ==
  /\ rcPc = "done"
  /\ Len(rcDocs) = 2
  /\ rcDocs[1].confidence = rcDocs[2].confidence
  /\ rcDocs[1] # rcDocs[2]
  /\ rcBest = rcDocs[1]

Range(seq) == {seq[k] : k \in 1..Len(seq)}

\* C16, as a step: the rejection of recognize leaves every earlier document
\* of the run that is done as it was, its extraction among those collected.
C16_Step ==
  \A error \in OcrErrors :
    RecognizeReject(error) =>
      \A j \in 1..(run.idx - 1) :
        LET id == run.docs[j].id IN
        (Present(id) /\ StatusOf(documents, id) = "done")
          => /\ id \in Ids(documents')
             /\ DocOf(documents', id) = DocOf(documents, id)
             /\ DocOf(documents, id).extraction \in Range(run'.collectedExtractions)

\* C16, at the end of the run: the report holds the extraction of every
\* document of the run that is done.
C16_AtEnd ==
  (LoopEnds /\ mounted') =>
    \A j \in 1..Len(run'.docs) :
      LET id == run'.docs[j].id IN
      (id \in Ids(documents') /\ StatusOf(documents', id) = "done")
        => /\ report' # Null
           /\ DocOf(documents', id).extraction \in Range(report'.extractions)

\* C16: once a document is done in a run, the OCR failure of a later document
\* leaves its status, text and extraction unchanged, and its extraction is
\* among those the run's report is built from.
C16_DoneSurvivesLaterFailure == [][C16_Step /\ C16_AtEnd]_vars

\* C16 witness: a run of two documents has returned; the first is done, the
\* second failed in OCR after it, and the report holds the first's extraction.
C16_Witness ==
  /\ mounted
  /\ pc = "idle"
  /\ Len(run.docs) = 2
  /\ run.idx = 3
  /\ Present(run.docs[1].id) /\ StatusOf(documents, run.docs[1].id) = "done"
  /\ Present(run.docs[2].id) /\ StatusOf(documents, run.docs[2].id) = "error"
  /\ report # Null
  /\ DocOf(documents, run.docs[1].id).extraction \in Range(report.extractions)

\* ensureWorker returned a worker to the last call of runAnalysis, and the
\* call has exited.
ExitedWithWorker == pc = "idle" /\ run.idx > 0

\* C17 as claimed: when a run exits, the worker ensureWorker gave it has been
\* terminated.
C17_WorkerScopedToRun == ExitedWithWorker => run.worker \notin workers

\* C17, amended: the worker is created once and kept for reuse.  When a run
\* that ensureWorker gave a worker has exited and the component is mounted,
\* the worker is not terminated and workerRef holds it; a worker is
\* terminated only by the unmount cleanup, and only the one in workerRef.
C17_WorkerKeptForReuse ==
  [][/\ \A w \in workers \ workers' : mounted /\ ~mounted' /\ w = workerRef
     /\ (mounted' /\ ExitedWithWorker')
          => (workerRef' = run'.worker /\ run'.worker \in workers')]_vars

\* C17 witness: a run has exited with a report and its worker is live in
\* workerRef.
C17_Witness ==
  /\ mounted
  /\ ExitedWithWorker
  /\ report # Null
  /\ workerRef = run.worker
  /\ run.worker \in workers

\* The positions of the documents listed with status done.
ListedDone(docs) == {i \in 1..Len(docs) : docs[i].status = "done"}

\* C18: the report built at the end of a run holds extractions only of
\* documents that are then in the list with status done (stated for a run
\* that carried no extraction over from an earlier one): a document removed
\* during the run contributes none.
C18_ReportOnlyOfListedDone ==
  [][(mounted' /\ LoopEnds /\ report' # Null /\ run'.existingExtractions = << >>)
       => /\ Range(report'.extractions) \subseteq
               {documents'[i].extraction : i \in ListedDone(documents')}
          /\ Len(report'.extractions) <= Cardinality(ListedDone(documents'))]_vars

\* The other half of C18: a document added while a run is in progress stays
\* pending and is not in the run's list.
AddedDuringRunStaysPending ==
  pc # "idle" =>
    \A i \in 1..Len(documents) :
      documents[i].id \notin Ids(run.docs) => documents[i].status = "pending"

\* C19: once the unmount cleanup has run, workerRef holds no worker that is
\* not terminated, also when a call of ensureWorker or runAnalysis was
\* pending at the unmount.
C19_NoWorkerOutlivesComponent == ~mounted => workerRef \notin workers

\* The button is disabled exactly while a call of runAnalysis is pending.
ProcessingWhileRunning == mounted => (processing <=> pc # "idle")

====
